---- MODULE Spec2Model ----
(***************************************************************************)
(* Model of maypok86/validator (src/validator.go).                         *)
(*                                                                         *)
(* The package is a pure computation: Validate(v) walks a value through    *)
(* reflection, applies the rule named in each field's `validate` tag and    *)
(* returns the collected errors.  The model keeps the source's functions   *)
(* as operators of the same name.                                          *)
(*                                                                         *)
(* Representation.                                                         *)
(*   - A Go string is a sequence of bytes.  An ASCII byte is the           *)
(*     one-character string of that byte; a byte >= 0x80 is written        *)
(*     "xHH".  Struct tags are strings of the same kind.                   *)
(*   - A reflect.Value is a record [kind, type, ekind, str, int, sub,      *)
(*     fdefs]: kind is the reflect.Kind, type the name of the static type, *)
(*     ekind the Kind of Type().Elem() (Ptr, Slice, Array), str the bytes  *)
(*     of a string, int the value of an integer, sub the pointee of a      *)
(*     pointer (<<>> when nil), the elements of a slice or array, or the   *)
(*     field values of a struct, fdefs the reflect.StructField of each     *)
(*     field of a struct.                                                  *)
(*   - An error is the string of its message; Nil is the nil error.        *)
(*   - A run-time panic is an outcome of its own: every operator that can  *)
(*     reach parseValidateTag returns [panic, errs].                       *)
(***************************************************************************)
EXTENDS Integers, Sequences, FiniteSets, TLC

(***************************************************************************)
(* Bounds of the checked input space.                                      *)
(***************************************************************************)
MaxStrLen == 2
MaxSliceLen == 2
MaxFields == 2
MaxInt == 3

(***************************************************************************)
(* Sentinel errors and rule messages.                                      *)
(***************************************************************************)
Nil == "<nil>"
ErrNotStruct == "wrong argument given, should be a struct"
ErrInvalidValidatorSyntax == "invalid validator syntax"
ErrValidateForUnexportedFields == "validation for unexported field is not allowed"

lenTag == <<"l", "e", "n">>
inTag == <<"i", "n">>
minTag == <<"m", "i", "n">>
maxTag == <<"m", "a", "x">>

(***************************************************************************)
(* strings, strconv, unicode/utf8: the library calls the package makes,    *)
(* computed on byte sequences.                                             *)
(***************************************************************************)
\* Integers are unbounded below: the numeric literals of the tags checked
\* have at most a few digits, far from the 64-bit range where ParseInt
\* reports ErrRange, so the range test of strconv never fires here.
IsSpace(b) == b \in {" ", "\t"}

RECURSIVE TrimLeft(_)
TrimLeft(s) ==
    IF s # <<>> /\ IsSpace(Head(s)) THEN TrimLeft(Tail(s)) ELSE s

RECURSIVE TrimRight(_)
TrimRight(s) ==
    IF s # <<>> /\ IsSpace(s[Len(s)]) THEN TrimRight(SubSeq(s, 1, Len(s) - 1)) ELSE s

TrimSpace(s) == TrimRight(TrimLeft(s))

\* index of the first occurrence of byte sep in s, 0 when there is none
RECURSIVE IndexFrom(_, _, _)
IndexFrom(s, sep, i) ==
    IF i > Len(s) THEN 0
    ELSE IF s[i] = sep THEN i
    ELSE IndexFrom(s, sep, i + 1)

Index(s, sep) == IndexFrom(s, sep, 1)

\* strings.SplitN(s, sep, 2): one part when sep is absent, else two
SplitN2(s, sep) ==
    LET i == Index(s, sep)
    IN  IF i = 0 THEN <<s>>
        ELSE <<SubSeq(s, 1, i - 1), SubSeq(s, i + 1, Len(s))>>

\* strings.Split(s, sep): every part, empty parts included
RECURSIVE Split(_, _)
Split(s, sep) ==
    LET i == Index(s, sep)
    IN  IF i = 0 THEN <<s>>
        ELSE <<SubSeq(s, 1, i - 1)>> \o Split(SubSeq(s, i + 1, Len(s)), sep)

\* Digits[d + 1]: the bytes that stand for the digit d
Digits ==
    <<{"0"}, {"1"}, {"2"}, {"3"}, {"4"}, {"5"}, {"6"}, {"7"}, {"8"}, {"9"},
      {"a", "A"}, {"b", "B"}, {"c", "C"}, {"d", "D"}, {"e", "E"}, {"f", "F"}>>

\* the value of byte b as a digit, -1 when it is none in any base <= 16
DigitVal(b) ==
    LET at == {i \in 1..Len(Digits) : b \in Digits[i]}
    IN  IF at = {} THEN -1 ELSE (CHOOSE i \in at : TRUE) - 1

\* the digits of s read in the given base: [err, val], val unbounded
RECURSIVE Accumulate(_, _, _)
Accumulate(s, base, acc) ==
    IF s = <<>> THEN [err |-> FALSE, val |-> acc]
    ELSE LET d == DigitVal(Head(s))
         IN  IF d < 0 \/ d >= base THEN [err |-> TRUE, val |-> 0]
             ELSE Accumulate(Tail(s), base, acc * base + d)

HasSign(s) == s # <<>> /\ Head(s) \in {"+", "-"}

\* strconv.ParseUint(s, base, 64) for base 10 and base 0
ParseUint(s, base) ==
    IF s = <<>> THEN [err |-> TRUE, val |-> 0]
    ELSE LET pre == Len(s) >= 3 /\ Head(s) = "0"
             b == IF base # 0 THEN base
                  ELSE IF Head(s) # "0" THEN 10
                  ELSE IF pre /\ s[2] \in {"b", "B"} THEN 2
                  ELSE IF pre /\ s[2] \in {"o", "O"} THEN 8
                  ELSE IF pre /\ s[2] \in {"x", "X"} THEN 16
                  ELSE 8
             rest == IF base # 0 \/ Head(s) # "0" THEN s
                     ELSE IF pre /\ s[2] \in {"b", "B", "o", "O", "x", "X"}
                          THEN SubSeq(s, 3, Len(s))
                     ELSE Tail(s)
         IN  Accumulate(rest, b, 0)

\* the sign ParseInt puts back on what ParseUint read
Signed(neg, un) ==
    IF un.err THEN un
    ELSE [err |-> FALSE, val |-> IF neg THEN 0 - un.val ELSE un.val]

\* strconv.ParseInt(s, base, 64)
ParseInt(s, base) ==
    IF s = <<>> THEN [err |-> TRUE, val |-> 0]
    ELSE Signed(Head(s) = "-", ParseUint(IF HasSign(s) THEN Tail(s) ELSE s, base))

\* strconv.Atoi(s) is ParseInt(s, 10): base 10, the platform int 64 bits wide

IsCont(b) == b \in {"x82", "xA9", "xAC"}
IsLead2(b) == b \in {"xC3"}
IsLead3(b) == b \in {"xE2"}

\* utf8.RuneCountInString(s): a well-formed multi-byte sequence is one rune,
\* any other byte is one rune (RuneError, width 1)
RECURSIVE RuneCountFrom(_, _)
RuneCountFrom(s, i) ==
    IF i > Len(s) THEN 0
    ELSE IF IsLead2(s[i]) /\ i + 1 <= Len(s) /\ IsCont(s[i + 1])
         THEN 1 + RuneCountFrom(s, i + 2)
    ELSE IF IsLead3(s[i]) /\ i + 2 <= Len(s) /\ IsCont(s[i + 1]) /\ IsCont(s[i + 2])
         THEN 1 + RuneCountFrom(s, i + 3)
    ELSE 1 + RuneCountFrom(s, i + 1)

RuneCountInString(s) == RuneCountFrom(s, 1)

(***************************************************************************)
(* reflect.Value                                                           *)
(***************************************************************************)
Value(kind, type, ekind, str, int, sub, fdefs) ==
    [kind |-> kind, type |-> type, ekind |-> ekind, str |-> str, int |-> int,
     sub |-> sub, fdefs |-> fdefs]

\* Value.IsNil of a pointer
IsNil(value) == value.sub = <<>>

\* Value.Elem of a non-nil pointer
Elem(value) == value.sub[1]

\* Value.Len of a slice or array
ValueLen(value) == Len(value.sub)

\* reflect.StructField, with Tag holding Tag.Get(tagName)
StructField(tag, anonymous, pkgPath) ==
    [Tag |-> tag, Anonymous |-> anonymous, PkgPath |-> pkgPath]

(***************************************************************************)
(* The rule library.  A validationFunc is the closure the getter returns:  *)
(* [name, n, strs] records the getter and the parameter it captured, and   *)
(* getXValidationFunc(param, value) is the closure applied to value.       *)
(***************************************************************************)
getLenValidationFunc(length, value) ==
    IF value.kind = "String"
    THEN IF RuneCountInString(value.str) # length THEN "invalid length" ELSE Nil
    ELSE IF value.kind \in {"Slice", "Array"}
    THEN IF ValueLen(value) # length THEN "invalid length" ELSE Nil
    ELSE "invalid type of field for tag len"

\* the Int case of getInValidationFunc, in[i] being ParseInt of the i-th entry
inInts(in, n) ==
    IF \E i \in DOMAIN in : in[i].err THEN ErrInvalidValidatorSyntax
    ELSE IF \E i \in DOMAIN in : in[i].val = n THEN Nil
    ELSE "field value is not in array from tag"

getInValidationFunc(strs, value) ==
    IF value.kind = "String"
    THEN IF \E i \in 1..Len(strs) : value.str = TrimSpace(strs[i])
         THEN Nil
         ELSE "field value is not in array from tag"
    ELSE IF value.kind = "Int"
    THEN inInts([i \in 1..Len(strs) |-> ParseInt(TrimSpace(strs[i]), 0)], value.int)
    ELSE "invalid type of field for tag in"

\* getMinValidationFunc with <= for <: a value equal to min is rejected
getMinValidationFuncLE(min, value) ==
    IF value.kind = "String"
    THEN IF RuneCountInString(value.str) <= min THEN "string length less than min" ELSE Nil
    ELSE IF value.kind \in {"Slice", "Array"}
    THEN IF ValueLen(value) <= min THEN "slice length less than min" ELSE Nil
    ELSE IF value.kind = "Int"
    THEN IF value.int <= min THEN "int value less than min" ELSE Nil
    ELSE "invalid type of field for tag min"

getMinValidationFunc(min, value) ==
    IF value.kind = "String"
    THEN IF RuneCountInString(value.str) < min THEN "string length less than min" ELSE Nil
    ELSE IF value.kind \in {"Slice", "Array"}
    THEN IF ValueLen(value) < min THEN "slice length less than min" ELSE Nil
    ELSE IF value.kind = "Int"
    THEN IF value.int < min THEN "int value less than min" ELSE Nil
    ELSE "invalid type of field for tag min"

getMaxValidationFunc(max, value) ==
    IF value.kind = "String"
    THEN IF RuneCountInString(value.str) > max THEN "string length greater than max" ELSE Nil
    ELSE IF value.kind \in {"Slice", "Array"}
    THEN IF ValueLen(value) > max THEN "slice length greater than max" ELSE Nil
    ELSE IF value.kind = "Int"
    THEN IF value.int > max THEN "int value greater than max" ELSE Nil
    ELSE "invalid type of field for tag max"

validationFunc(name, n, strs) == [name |-> name, n |-> n, strs |-> strs]

NoFunc == validationFunc("", 0, <<>>)

\* vfunc(value): the call of a validationFunc
Call(vfunc, value) ==
    CASE vfunc.name = "len" -> getLenValidationFunc(vfunc.n, value)
      [] vfunc.name = "in" -> getInValidationFunc(vfunc.strs, value)
      [] vfunc.name = "min" -> getMinValidationFunc(vfunc.n, value)
      [] vfunc.name = "max" -> getMaxValidationFunc(vfunc.n, value)

(***************************************************************************)
(* The rule parser.                                                        *)
(***************************************************************************)
\* what getValidationFunc returns: (nil, ErrInvalidValidatorSyntax)
SyntaxError == [vfunc |-> NoFunc, err |-> ErrInvalidValidatorSyntax]

\* the return of a numeric rule from the parse n of its parameter
numericFunc(name, n) ==
    IF n.err THEN SyntaxError
    ELSE [vfunc |-> validationFunc(name, n.val, <<>>), err |-> Nil]

\* getValidationFunc once both arguments are trimmed
trimmedValidationFunc(funcName, param) ==
    IF param = <<>> THEN SyntaxError
    ELSE IF funcName = lenTag THEN numericFunc("len", ParseInt(param, 10))
    ELSE IF funcName = inTag
    THEN [vfunc |-> validationFunc("in", 0, Split(param, ",")), err |-> Nil]
    ELSE IF funcName = minTag THEN numericFunc("min", ParseInt(param, 0))
    ELSE IF funcName = maxTag THEN numericFunc("max", ParseInt(param, 0))
    ELSE SyntaxError

\* [vfunc, err]
getValidationFunc(funcName, param) ==
    trimmedValidationFunc(TrimSpace(funcName), TrimSpace(param))

\* a return of parseValidateTag
Parsed(r) == [panic |-> FALSE, vfunc |-> r.vfunc, err |-> r.err]

\* [panic, vfunc, err]: s[1] of a one-element split is an index out of range
parseValidateTag(validateTag) ==
    LET s == SplitN2(validateTag, ":")
    IN  IF Len(s) < 2
        THEN [panic |-> TRUE, vfunc |-> NoFunc, err |-> Nil]
        ELSE Parsed(getValidationFunc(s[1], s[2]))

(***************************************************************************)
(* The field validator and the traversal.  Each returns [panic, errs].     *)
(***************************************************************************)
Returns(errs) == [panic |-> FALSE, errs |-> errs]

Panics == [panic |-> TRUE, errs |-> <<>>]

\* the loop of validateField that follows non-nil pointers
RECURSIVE Deref(_)
Deref(fieldValue) ==
    IF fieldValue.kind = "Ptr" /\ ~IsNil(fieldValue)
    THEN Deref(Elem(fieldValue))
    ELSE fieldValue

\* the end of validateField: the rule's error, if any, is appended
appendErr(errs, err) ==
    IF err # Nil THEN Returns(Append(errs, err)) ELSE Returns(errs)

\* applyParsed that skips a field whose pointer chain ends in nil
applyParsedSkipNil(parsed, fieldValue, errs) ==
    IF parsed.panic THEN Panics
    ELSE IF parsed.err # Nil THEN Returns(Append(errs, parsed.err))
    ELSE IF Deref(fieldValue).kind = "Ptr" THEN Returns(errs)
    ELSE appendErr(errs, Call(parsed.vfunc, Deref(fieldValue)))

\* validateField from the parsed tag on
applyParsed(parsed, fieldValue, errs) ==
    IF parsed.panic THEN Panics
    ELSE IF parsed.err # Nil THEN Returns(Append(errs, parsed.err))
    ELSE appendErr(errs, Call(parsed.vfunc, Deref(fieldValue)))

\* validateField that parses the tag before it looks at the field's export
validateFieldParseFirst(fieldDefinition, fieldValue, errs) ==
    IF fieldDefinition.Tag = <<>> \/ fieldDefinition.Tag = <<"-">> THEN Returns(errs)
    ELSE IF parseValidateTag(fieldDefinition.Tag).panic
            \/ parseValidateTag(fieldDefinition.Tag).err # Nil
    THEN applyParsed(parseValidateTag(fieldDefinition.Tag), fieldValue, errs)
    ELSE IF ~fieldDefinition.Anonymous /\ fieldDefinition.PkgPath # ""
    THEN Returns(Append(errs, ErrValidateForUnexportedFields))
    ELSE applyParsed(parseValidateTag(fieldDefinition.Tag), fieldValue, errs)

validateField(fieldDefinition, fieldValue, errs) ==
    IF fieldDefinition.Tag = <<>> \/ fieldDefinition.Tag = <<"-">> THEN Returns(errs)
    ELSE IF ~fieldDefinition.Anonymous /\ fieldDefinition.PkgPath # ""
    THEN Returns(Append(errs, ErrValidateForUnexportedFields))
    ELSE applyParsed(parseValidateTag(fieldDefinition.Tag), fieldValue, errs)

\* the loop of validateStruct from field i on, out being the return so far;
\* a panic ends it
RECURSIVE validateFields(_, _, _)
validateFields(value, i, out) ==
    IF out.panic \/ i > Len(value.fdefs) THEN out
    ELSE validateFields(value, i + 1,
                        validateField(value.fdefs[i], value.sub[i], out.errs))

RECURSIVE validateStruct(_, _)
validateStruct(value, errs) ==
    IF value.kind = "Ptr" /\ ~IsNil(value) THEN validateStruct(Elem(value), errs)
    ELSE IF value.kind # "Struct" THEN Returns(Append(errs, ErrNotStruct))
    ELSE validateFields(value, 1, Returns(errs))

RECURSIVE deepValidate(_, _)
RECURSIVE deepValidateElems(_, _, _)
\* the loop of deepValidate from element i on, out being the return so far
deepValidateElems(value, i, out) ==
    IF out.panic \/ i > ValueLen(value) THEN out
    ELSE deepValidateElems(value, i + 1, deepValidate(value.sub[i], out.errs))

\* deepValidate without the test of the element kind: every sequence is iterated
deepValidateAnySeq(value, errs) ==
    IF value.kind = "Ptr"
    THEN IF IsNil(value) THEN Returns(errs) ELSE deepValidate(Elem(value), errs)
    ELSE IF value.kind = "Struct" THEN validateStruct(value, errs)
    ELSE IF value.kind \in {"Array", "Slice"}
    THEN deepValidateElems(value, 1, Returns(errs))
    ELSE Returns(Append(errs, ErrNotStruct))

deepValidate(value, errs) ==
    IF value.kind = "Ptr"
    THEN IF IsNil(value) THEN Returns(errs) ELSE deepValidate(Elem(value), errs)
    ELSE IF value.kind = "Struct" THEN validateStruct(value, errs)
    ELSE IF value.kind \in {"Array", "Slice"}
            /\ value.ekind \in {"Struct", "Ptr", "Array", "Slice"}
    THEN deepValidateElems(value, 1, Returns(errs))
    ELSE Returns(Append(errs, ErrNotStruct))

\* asError without the test of len(errs): the collected errors are returned
\* as they are, an empty ValidationErrors included
asErrorAlways(r) ==
    IF r.panic THEN [kind |-> "panic", errs |-> <<>>]
    ELSE [kind |-> "errors", errs |-> r.errs]

\* the error Validate returns from what deepValidate collected: [kind, errs]
\* with kind "nil" (the nil error), "errors" (a ValidationErrors) or "panic"
asError(r) ==
    IF r.panic THEN [kind |-> "panic", errs |-> <<>>]
    ELSE IF Len(r.errs) > 0 THEN [kind |-> "errors", errs |-> r.errs]
    ELSE [kind |-> "nil", errs |-> <<>>]

Validate(v) == asError(deepValidate(v, <<>>))

(***************************************************************************)
(* The values checked.                                                     *)
(***************************************************************************)
BSeq(S, n) == UNION {[1..k -> S] : k \in 0..n}

VString(s) == Value("String", "string", "", s, 0, <<>>, <<>>)

IntKinds == {"Int", "Int8", "Int16", "Int32", "Int64"}

IntTypeName == [Int |-> "int", Int8 |-> "int8", Int16 |-> "int16",
                Int32 |-> "int32", Int64 |-> "int64"]

VInt(kind, n) == Value(kind, IntTypeName[kind], "", <<>>, n, <<>>, <<>>)

\* a value of a kind no rule and no traversal case names
VOther(kind, type) == Value(kind, type, "", <<>>, 0, <<>>, <<>>)

VPtr(v) == Value("Ptr", "*" \o v.type, v.kind, <<>>, 0, <<v>>, <<>>)

VNilPtr(elemType, ekind) == Value("Ptr", "*" \o elemType, ekind, <<>>, 0, <<>>, <<>>)

VSlice(elemType, ekind, elems) ==
    Value("Slice", "[]" \o elemType, ekind, <<>>, 0, elems, <<>>)

VArray(elemType, ekind, elems) ==
    Value("Array", "[n]" \o elemType, ekind, <<>>, 0, elems, <<>>)

\* a struct from its fields, each a pair <<StructField, Value>>
VStruct(fields) ==
    Value("Struct", "struct", "", <<>>, 0,
          [i \in 1..Len(fields) |-> fields[i][2]],
          [i \in 1..Len(fields) |-> fields[i][1]])

StrBytes == {"a", "xC3", "xA9"}

Strings == {VString(s) : s \in BSeq(StrBytes, MaxStrLen)}

Ints == {VInt(k, n) : k \in IntKinds, n \in (0 - MaxInt)..MaxInt}

Others == {VOther("Bool", "bool"), VOther("Uint", "uint"), VOther("Interface", "any")}

\* reflect.ValueOf(nil)
Invalid == VOther("Invalid", "")

SliceInts == {VInt("Int", 0), VInt("Int", 1)}

SliceStrings == {VString(<<>>), VString(<<"a">>)}

ScalarSeqs ==
    {VSlice("int", "Int", e) : e \in BSeq(SliceInts, MaxSliceLen)}
    \cup {VArray("int", "Int", e) : e \in BSeq(SliceInts, MaxSliceLen)}
    \cup {VSlice("string", "String", e) : e \in BSeq(SliceStrings, MaxSliceLen)}

ScalarPtrs ==
    {VNilPtr("int", "Int"), VNilPtr("string", "String"), VNilPtr("*int", "Ptr"),
     VNilPtr("int64", "Int64"), VNilPtr("[]int", "Slice")}
    \cup {VPtr(VInt(k, n)) : k \in {"Int", "Int64"}, n \in 0..MaxInt}
    \cup {VPtr(VPtr(VInt("Int", n))) : n \in 0..MaxInt}
    \cup {VPtr(VNilPtr("int", "Int"))}
    \cup {VPtr(VString(<<"a">>)), VPtr(VSlice("int", "Int", <<VInt("Int", 0)>>))}

\* the values a field of a scalar, sequence-of-scalar or pointer type holds
FieldValues == Strings \cup Ints \cup Others \cup ScalarSeqs \cup ScalarPtrs

\* the `validate` tags checked: well-formed, malformed, and without ':'
Tags ==
    {<<>>, <<"-">>,
     lenTag \o <<":", "1">>,
     lenTag \o <<":", "2">>,
     lenTag \o <<":", " ", "2", " ">>,
     <<" ">> \o lenTag \o <<" ", ":", "1">>,
     lenTag \o <<":", "x">>,
     lenTag \o <<":">>,
     lenTag \o <<":", "0", "x", "2">>,
     lenTag \o <<":", "1", ":", "2">>,
     lenTag,
     minTag \o <<":", "1">>,
     minTag \o <<":", "2">>,
     minTag \o <<":", "0", "x", "2">>,
     minTag \o <<":", "-", "1">>,
     minTag \o <<":", "x">>,
     minTag \o <<":", " ">>,
     minTag \o <<"5">>,
     maxTag \o <<":", "1">>,
     maxTag \o <<":", "2">>,
     maxTag \o <<":", "-", "1">>,
     inTag \o <<":", "a">>,
     inTag \o <<":", "a", ",", " ", "xC3", "xA9">>,
     inTag \o <<":", "1", ",", "2">>,
     inTag \o <<":", "0", "x", "2", ",", " ", "1">>,
     inTag \o <<":", "1", ",", "x">>,
     inTag \o <<":", ",">>,
     inTag,
     <<"f", "o", "o", ":", "1">>,
     <<":", "1">>}

\* the field declarations checked: every tag, exported or not, embedded or not
StructFields ==
    {StructField(t, a, p) : t \in Tags, a \in BOOLEAN, p \in {"", "pkg"}}

Exported(tag) == StructField(tag, FALSE, "")

Good == <<Exported(lenTag \o <<":", "2">>), VString(<<"a", "a">>)>>

Bad == <<Exported(lenTag \o <<":", "2">>), VString(<<"a">>)>>

\* a slice of pointers to records, as the value of a field
NestedSlices ==
    {VSlice("*T", "Ptr", <<VPtr(VStruct(<<Bad>>))>>),
     VSlice("*T", "Ptr", <<VPtr(VStruct(<<Good>>)), VPtr(VStruct(<<Good, Bad>>))>>)}

\* the fields the records given to Validate are built from
FieldPool ==
    {Good, Bad,
     <<Exported(minTag \o <<":", "1">>), VInt("Int", 0)>>,
     <<Exported(lenTag), VString(<<"a">>)>>,
     <<Exported(lenTag \o <<":", "x">>), VString(<<"a">>)>>,
     <<Exported(inTag \o <<":", "1", ",", "x">>), VInt("Int", 1)>>,
     <<Exported(maxTag \o <<":", "1">>), VNilPtr("int", "Int")>>,
     <<Exported(<<>>), VString(<<"a">>)>>,
     <<Exported(<<"-">>), VInt("Int", 0)>>,
     <<StructField(lenTag \o <<":", "2">>, FALSE, "pkg"), VString(<<"a">>)>>,
     <<StructField(minTag \o <<":", "1">>, TRUE, "pkg"), VStruct(<<Bad>>)>>}
    \cup {<<Exported(<<>>), v>> : v \in NestedSlices}
    \cup {<<Exported(minTag \o <<":", "1">>), v>> : v \in NestedSlices}

Structs == {VStruct(f) : f \in BSeq(FieldPool, MaxFields)}

ElemPool ==
    {Good, Bad,
     <<Exported(minTag \o <<":", "1">>), VInt("Int", 0)>>,
     <<Exported(lenTag), VString(<<"a">>)>>,
     <<Exported(<<>>), VString(<<"a">>)>>}

ElemStructs == {VStruct(<<>>)} \cup {VStruct(<<f>>) : f \in ElemPool}

ElemPtrs == {VNilPtr("T", "Struct")} \cup {VPtr(e) : e \in ElemStructs}

InnerSeqs ==
    {VSlice("T", "Struct", <<>>), VSlice("T", "Struct", <<VStruct(<<Bad>>)>>),
     VSlice("int", "Int", <<>>), VSlice("int", "Int", <<VInt("Int", 0)>>)}

\* the sequences deepValidate iterates: of records, of pointers, of sequences
RecursableSeqs ==
    {VSlice("T", "Struct", e) : e \in BSeq(ElemStructs, MaxSliceLen)}
    \cup {VArray("T", "Struct", e) : e \in BSeq({VStruct(<<Bad>>), VStruct(<<Good>>)}, MaxSliceLen)}
    \cup {VSlice("*T", "Ptr", e) : e \in BSeq(ElemPtrs, MaxSliceLen)}
    \cup {VSlice("*int", "Ptr", e) :
            e \in BSeq({VNilPtr("int", "Int"), VPtr(VInt("Int", 0))}, MaxSliceLen)}
    \cup {VSlice("[]T", "Slice", e) : e \in BSeq(InnerSeqs, MaxSliceLen)}

RootPtrs ==
    {VNilPtr("T", "Struct"), VPtr(VNilPtr("T", "Struct"))}
    \cup {VPtr(st) : st \in Structs}
    \cup {VPtr(VPtr(st)) : st \in ElemStructs}
    \cup {VPtr(sq) : sq \in {VSlice("T", "Struct", <<VStruct(<<Bad>>)>>)}}

\* the arguments given to Validate
RootValues ==
    FieldValues \cup {Invalid} \cup Structs \cup RecursableSeqs \cup RootPtrs

\* the errors already collected when validateField is entered
ErrsIn == {<<>>, <<ErrNotStruct>>}

MaxParam == 3

\* the closures getValidationFunc can return
ValidationFuncs ==
    {validationFunc(name, n, <<>>) : name \in {"len", "min", "max"}, n \in (0 - 1)..MaxParam}
    \cup {validationFunc("in", 0, strs) :
            strs \in {<<<<"a">>>>, <<<<"1">>, <<" ", "2">>>>, <<<<"1">>, <<"x">>>>, <<<<>>>>}}

RuleValues == FieldValues \cup {Invalid, VStruct(<<Bad>>)}

(***************************************************************************)
(* The state: the last call made and what it returned.                     *)
(*   op               "init" before a call, else the function called       *)
(*   value            the reflect.Value given                              *)
(*   fieldDefinition  validateField's StructField                          *)
(*   errsIn           validateField's errs argument                        *)
(*   vfunc            the validationFunc called                            *)
(*   result           what Validate returned                               *)
(*   fieldResult      what validateField returned                          *)
(*   ruleResult       what the validationFunc returned                     *)
(***************************************************************************)
VARIABLES op, value, fieldDefinition, errsIn, vfunc, result, fieldResult, ruleResult

vars == <<op, value, fieldDefinition, errsIn, vfunc, result, fieldResult, ruleResult>>

NoResult == [kind |-> "none", errs |-> <<>>]

Init ==
    /\ op = "init"
    /\ value = Invalid
    /\ fieldDefinition = Exported(<<>>)
    /\ errsIn = <<>>
    /\ vfunc = NoFunc
    /\ result = NoResult
    /\ fieldResult = Returns(<<>>)
    /\ ruleResult = Nil

\* a caller calls Validate(v)
CallValidate ==
    /\ op = "init"
    /\ \E v \in RootValues :
        /\ value' = v
        /\ result' = Validate(v)
    /\ op' = "Validate"
    /\ UNCHANGED <<fieldDefinition, errsIn, vfunc, fieldResult, ruleResult>>

\* validateStruct calls validateField on one field
CallValidateField ==
    /\ op = "init"
    /\ \E fd \in StructFields, fv \in FieldValues, errs \in ErrsIn :
        /\ fieldDefinition' = fd
        /\ value' = fv
        /\ errsIn' = errs
        /\ fieldResult' = validateField(fd, fv, errs)
    /\ op' = "validateField"
    /\ UNCHANGED <<vfunc, result, ruleResult>>

\* validateField calls the validationFunc it parsed
CallValidationFunc ==
    /\ op = "init"
    /\ \E f \in ValidationFuncs, v \in RuleValues :
        /\ vfunc' = f
        /\ value' = v
        /\ ruleResult' = Call(f, v)
    /\ op' = "validationFunc"
    /\ UNCHANGED <<fieldDefinition, errsIn, result, fieldResult>>

\* the call returns; nothing is kept from one call to the next
Return ==
    /\ op # "init"
    /\ op' = "init"
    /\ value' = Invalid
    /\ fieldDefinition' = Exported(<<>>)
    /\ errsIn' = <<>>
    /\ vfunc' = NoFunc
    /\ result' = NoResult
    /\ fieldResult' = Returns(<<>>)
    /\ ruleResult' = Nil

Next == CallValidate \/ CallValidateField \/ CallValidationFunc \/ Return

Spec == Init /\ [][Next]_vars

(***************************************************************************)
(* Vocabulary of the properties.                                           *)
(***************************************************************************)
TypeError(name) == "invalid type of field for tag " \o name

TypeErrors == {TypeError(n) : n \in {"len", "in", "min", "max"}}

\* the field carries a rule: its tag is neither empty nor "-"
Annotated(fd) == fd.Tag # <<>> /\ fd.Tag # <<"-">>

\* the field is exported or embedded
Accessible(fd) == fd.Anonymous \/ fd.PkgPath = ""

\* the errors a return r of validateField added to errs
Added(r, errs) == SubSeq(r.errs, Len(errs) + 1, Len(r.errs))

\* the errors field i of record st contributes on its own
Contribution(st, i) == validateField(st.fdefs[i], st.sub[i], <<>>)

\* field i of record st is annotated and its rule accepts its value
Satisfied(st, i) == Annotated(st.fdefs[i]) /\ Contribution(st, i) = Returns(<<>>)

\* field i of record st is annotated and its rule rejects its value
Violating(st, i) ==
    /\ Annotated(st.fdefs[i])
    /\ ~Contribution(st, i).panic
    /\ Len(Contribution(st, i).errs) = 1

\* every annotated field of record st is satisfied, but for those in except
AllSatisfiedBut(st, except) ==
    \A i \in 1..Len(st.fdefs) :
        Annotated(st.fdefs[i]) /\ i \notin except => Satisfied(st, i)

RECURSIVE Concat(_)
Concat(seqs) == IF seqs = <<>> THEN <<>> ELSE Head(seqs) \o Concat(Tail(seqs))

\* the value is a sequence deepValidate iterates
Qualifying(v) ==
    v.kind \in {"Slice", "Array"} /\ v.ekind \in {"Struct", "Ptr", "Slice", "Array"}

(***************************************************************************)
(* C1.  A record with a field that holds a sequence of pointers to records, *)
(* one of which has one violating field while every other annotated field  *)
(* is satisfied, yields an aggregate of exactly one error.                 *)
(***************************************************************************)
\* field i of root holds a sequence of non-nil pointers to records
HoldsRecords(root, i) ==
    /\ root.sub[i].kind \in {"Slice", "Array"}
    /\ root.sub[i].ekind = "Ptr"
    /\ \A j \in 1..Len(root.sub[i].sub) :
        /\ ~IsNil(root.sub[i].sub[j])
        /\ Elem(root.sub[i].sub[j]).kind = "Struct"

\* the positions <<i, j>> of the records nested in root
NestedAt(root) ==
    {p \in (1..Len(root.sub)) \X (1..MaxSliceLen) :
        HoldsRecords(root, p[1]) /\ p[2] <= Len(root.sub[p[1]].sub)}

Nested(root, p) == Elem(root.sub[p[1]].sub[p[2]])

NestedViolationCase(root) ==
    /\ root.kind = "Struct"
    /\ AllSatisfiedBut(root, {})
    /\ \E p \in NestedAt(root) :
        /\ \E k \in 1..Len(Nested(root, p).fdefs) :
            /\ Violating(Nested(root, p), k)
            /\ AllSatisfiedBut(Nested(root, p), {k})
        /\ \A q \in NestedAt(root) \ {p} : AllSatisfiedBut(Nested(root, q), {})

C1_NestedViolationReported ==
    op = "Validate" /\ NestedViolationCase(value)
        => result.kind = "errors" /\ Len(result.errs) = 1

(***************************************************************************)
(* C2.  An exported field whose tag is non-empty, not "-" and has no ':'   *)
(* makes no fault: it contributes exactly one ErrInvalidValidatorSyntax.   *)
(***************************************************************************)
NoSeparator(tag) == Index(tag, ":") = 0

C2_MissingSeparatorIsSyntaxError ==
    /\ op = "validateField"
    /\ Annotated(fieldDefinition)
    /\ fieldDefinition.PkgPath = ""
    /\ NoSeparator(fieldDefinition.Tag)
    => fieldResult = Returns(Append(errsIn, ErrInvalidValidatorSyntax))

(***************************************************************************)
(* C3.  Validate of a value that is no record, no pointer and no sequence  *)
(* of records, pointers or sequences returns exactly one error,            *)
(* ErrNotStruct, and never success.                                        *)
(***************************************************************************)
C3_NotStructExactlyOnce ==
    /\ op = "Validate"
    /\ value.kind \notin {"Struct", "Ptr"}
    /\ ~Qualifying(value)
    => result = [kind |-> "errors", errs |-> <<ErrNotStruct>>]

C3_Witness ==
    /\ op = "Validate"
    /\ value.kind = "Slice"
    /\ value.ekind = "Int"
    /\ Len(value.sub) = MaxSliceLen
    /\ result = [kind |-> "errors", errs |-> <<ErrNotStruct>>]

(***************************************************************************)
(* C4.  The traversal never stops at a failure and keeps the order met:    *)
(* for a record the aggregate is the concatenation, in declaration order,  *)
(* of what each field contributes; for a sequence that is iterated it is   *)
(* the concatenation, in index order, of the aggregates of its elements.   *)
(***************************************************************************)
FieldErrors(st) == Concat([i \in 1..Len(st.fdefs) |-> Contribution(st, i).errs])

ElementErrors(sq) == Concat([i \in 1..Len(sq.sub) |-> deepValidate(sq.sub[i], <<>>).errs])

C4_TraversalNeverStops ==
    /\ op = "Validate" /\ value.kind = "Struct"
        => result = asError(Returns(FieldErrors(value)))
    /\ op = "Validate" /\ Qualifying(value)
        => result = asError(Returns(ElementErrors(value)))

(***************************************************************************)
(* C5.  Validate returns the nil error exactly when the traversal          *)
(* collected no error; a non-nil error it returns is a ValidationErrors of *)
(* at least one element, never an empty one.                               *)
(***************************************************************************)
Collected(v) == deepValidate(v, <<>>)

C5_NilIffNoErrors ==
    op = "Validate" =>
        /\ result.kind = "nil" <=> (~Collected(value).panic /\ Collected(value).errs = <<>>)
        /\ result.kind = "errors" => Len(result.errs) >= 1
        /\ result.kind = "errors" => result.errs = Collected(value).errs

C5_Witness ==
    /\ op = "Validate"
    /\ value.kind = "Struct"
    /\ Len(value.fdefs) = MaxFields
    /\ \A i \in 1..Len(value.fdefs) : Annotated(value.fdefs[i])
    /\ result.kind = "nil"

(***************************************************************************)
(* C6.  A nil pointer that is traversed (the root, or an element of a      *)
(* sequence that is iterated) adds no error, while an annotated, exported  *)
(* field whose pointer chain ends in nil is given to its rule as it is and *)
(* contributes exactly one invalid-type error, for len, in, min and max.   *)
(***************************************************************************)
\* the sequence sq without its nil pointers
RECURSIVE WithoutNil(_)
WithoutNil(elems) ==
    IF elems = <<>> THEN <<>>
    ELSE IF Head(elems).kind = "Ptr" /\ IsNil(Head(elems)) THEN WithoutNil(Tail(elems))
    ELSE <<Head(elems)>> \o WithoutNil(Tail(elems))

\* the tag is one getValidationFunc builds a rule from
RuleOf(fd) == parseValidateTag(fd.Tag)

HasRule(fd) == Annotated(fd) /\ ~RuleOf(fd).panic /\ RuleOf(fd).err = Nil

C6_NilPointerPaths ==
    /\ op = "Validate" /\ value.kind = "Ptr" /\ IsNil(value)
        => result.kind = "nil"
    /\ op = "Validate" /\ Qualifying(value)
        => result = Validate([value EXCEPT !.sub = WithoutNil(value.sub)])
    /\ op = "validateField" /\ Accessible(fieldDefinition) /\ HasRule(fieldDefinition)
       /\ Deref(value).kind = "Ptr"
        => fieldResult
             = Returns(Append(errsIn, TypeError(RuleOf(fieldDefinition).vfunc.name)))

C6_Witness ==
    /\ op = "validateField"
    /\ fieldDefinition = Exported(inTag \o <<":", "1", ",", "2">>)
    /\ value = VPtr(VNilPtr("int", "Int"))
    /\ errsIn = <<ErrNotStruct>>
    /\ fieldResult = Returns(<<ErrNotStruct, TypeError("in")>>)

(***************************************************************************)
(* C7.  An annotated field that is neither exported nor embedded           *)
(* contributes exactly ErrValidateForUnexportedFields, whatever its tag    *)
(* and value; a field whose tag is empty or "-" contributes nothing.       *)
(***************************************************************************)
C7_UnexportedFieldRefused ==
    /\ op = "validateField" /\ Annotated(fieldDefinition)
       /\ ~fieldDefinition.Anonymous /\ fieldDefinition.PkgPath # ""
        => fieldResult = Returns(Append(errsIn, ErrValidateForUnexportedFields))
    /\ op = "validateField" /\ ~Annotated(fieldDefinition)
        => fieldResult = Returns(errsIn)

C7_Witness ==
    /\ op = "validateField"
    /\ fieldDefinition = StructField(lenTag, FALSE, "pkg")
    /\ value.kind = "Int"
    /\ fieldResult = Returns(<<ErrValidateForUnexportedFields>>)

(***************************************************************************)
(* C8.  For a string (codepoint count), a slice or array (element count)   *)
(* or an int (its value), with measure m: min(n) fails iff m < n and       *)
(* max(n) fails iff m > n, so m = n passes both; for any other kind both   *)
(* return the invalid-type error.                                          *)
(***************************************************************************)
Measured(v) == v.kind \in {"String", "Slice", "Array", "Int"}

Measure(v) ==
    CASE v.kind = "String" -> RuneCountInString(v.str)
      [] v.kind \in {"Slice", "Array"} -> Len(v.sub)
      [] v.kind = "Int" -> v.int

ReportsSyntax(r, errs) == ~r.panic /\ Added(r, errs) = <<ErrInvalidValidatorSyntax>>

\* the tag is in:<list> and some entry of the list is no integer
BadIntList(fd) ==
    /\ HasRule(fd)
    /\ RuleOf(fd).vfunc.name = "in"
    /\ \E i \in 1..Len(RuleOf(fd).vfunc.strs) :
        ParseInt(TrimSpace(RuleOf(fd).vfunc.strs[i]), 0).err

C9_SyntaxErrorBeforeValue ==
    /\ op = "validateField" =>
        \A other \in FieldValues :
            other.type = value.type =>
                (ReportsSyntax(validateField(fieldDefinition, other, errsIn), errsIn)
                    <=> ReportsSyntax(fieldResult, errsIn))
    /\ op = "validateField" /\ Accessible(fieldDefinition) /\ BadIntList(fieldDefinition)
       /\ value.type \in {"int", "*int", "**int"}
        => ReportsSyntax(fieldResult, errsIn)

(***************************************************************************)
(* C10.  min, max and in compare integers in one 64-bit signed domain      *)
(* whatever the declared width: an exported int, int8, int16, int32 or     *)
(* int64 field with a well-formed min, max or in tag passes or violates    *)
(* the rule and is never refused with the invalid-type error.              *)
(***************************************************************************)
WellFormedIntRule(fd) ==
    /\ HasRule(fd)
    /\ RuleOf(fd).vfunc.name \in {"min", "max", "in"}
    /\ ~BadIntList(fd)

C10_AnyIntWidthCompared ==
    /\ op = "validateField"
    /\ fieldDefinition.PkgPath = ""
    /\ WellFormedIntRule(fieldDefinition)
    /\ value.kind \in IntKinds
    => /\ ~fieldResult.panic
       /\ \A i \in 1..Len(fieldResult.errs) : fieldResult.errs[i] \notin TypeErrors

====
